---- MODULE Spec2Model ----
(***************************************************************************)
(* A model of element-volume's chunked transfer code:                      *)
(*   - bossdb_upload            (element_volume/export/bossdb.py)          *)
(*   - BossDBInterface          (element_volume/readers/bossdb.py):        *)
(*       __init__, _get_zoom_id, _string_to_slice_key,                     *)
(*       _slice_key_to_string, _download_slices, download                  *)
(* The remote store (the intern library's array) and the metadata tables   *)
(* are the environment: their answers are nondeterministic choices.        *)
(***************************************************************************)
EXTENDS Integers, Sequences, FiniteSets, TLC

\* ------------------------------------------------------------------ bounds
MaxZ == 3
MaxYX == 1
MaxInc == 2
MaxRetry == 1
MaxFiles == 3
MaxImg == 2
MaxKeyLen == 2
MaxCoord == 10
MaxDim == 2
MaxZoomCalls == 3

VARIABLES
    \* ---- bossdb_upload: arguments
    overwrite,          \* overwrite
    resolution,         \* resolution
    raw_data,           \* "None", or an ndarray of shape shape_zyx: "zeros" / "nonzero"
    shape_zyx,          \* <<z, y, x>>
    upload_increment,   \* upload_increment
    retry_max,          \* retry_max
    nfiles,             \* number of files data_dir.glob("*" + data_extension) yields
    image_yx,           \* <<height, width>> of the decoded image files, taken square
    \* ---- bossdb_upload: locals and position
    pc,                 \* position in bossdb_upload
    url_exist,          \* url_exist
    create_new,         \* the create_new passed to BossDBInterface at line 52
    i,                  \* loop variable i
    stack_len,          \* stack.shape[0]
    stack_yx,           \* <<stack.shape[1], stack.shape[2]>>
    retry_count,        \* retry_count
    chunk_errors,       \* the exceptions caught for the current chunk, in order
    visited,            \* the <<i, z_limit>> pairs the loop has computed
    outcome,            \* "running", "skipped", "success", "error"
    raised,             \* the exception bossdb_upload ended with
    warnings,           \* number of logger.warning calls
    \* ---- the remote store
    remote_exists,      \* whether the channel of url exists remotely
    committed,          \* the Z boxes <<z0, z1>> written successfully
    net,                \* every call made against the remote store, in order
    boxes,              \* the box and data of every write attempt, in order
    \* ---- range keys: _slice_key_to_string, then _string_to_slice_key
    slice_key,          \* a tuple of slices, each <<start, stop>>
    key_pc,             \* "start", "serialized", "parsed", "failed"
    string_key,         \* the string _slice_key_to_string returned
    key_result,         \* the tuple _string_to_slice_key returned
    key_error,          \* the exception either of them raised
    \* ---- a BossDBInterface handle bound to a volume
    axis_order,         \* self.axis_order: "ZYX" or "XYZ"
    provider_order,     \* self.volume_provider.get_axis_order()
    extent,             \* the bound volume's <<z_size, y_size, x_size>>
    h_resolution,       \* self.resolution
    \* ---- the metadata tables
    tbl_resolution,     \* volume.Resolution
    tbl_volume,         \* volume.Volume
    tbl_zoom,           \* volume.Zoom
    \* ---- _get_zoom_id, download and _download_slices
    zoom_calls,         \* every _get_zoom_id call: its xs, ys and return value
    ex_pc,              \* position in download / _download_slices
    ex_key,             \* xs, ys, zs of the slice key
    save_images,        \* save_images
    ex_zoom_id,         \* zoom_id
    ex_data,            \* data: its first axis, that axis's origin and length
    ex_z,               \* loop variable z
    files,              \* the image files on disk: name and plane held
    save_log,           \* every Image.save call: its z and whether it succeeded
    ex_outcome,         \* "running", "returned", "error"
    ex_error,           \* the exception download ended with
    slice_records       \* the SliceRecords download returned

upVars == <<overwrite, resolution, raw_data, shape_zyx, upload_increment, retry_max,
            nfiles, pc, url_exist, create_new, i, stack_len, retry_count,
            chunk_errors, visited, outcome, raised, warnings, remote_exists,
            committed, net, image_yx, stack_yx, boxes>>

keyVars == <<slice_key, key_pc, string_key, key_result, key_error>>

exVars == <<axis_order, provider_order, extent, h_resolution, tbl_resolution,
            tbl_volume, tbl_zoom, zoom_calls, ex_pc, ex_key, save_images,
            ex_zoom_id, ex_data, ex_z, files, save_log, ex_outcome, ex_error,
            slice_records>>

vars == <<upVars, keyVars, exVars>>

\* ----------------------------------------------------------------- helpers
Min(a, b) == IF a < b THEN a ELSE b
Max(a, b) == IF a > b THEN a ELSE b

NoError == [type |-> "None", chunk |-> -1, attempt |-> 0]
Err(t) == [type |-> t, chunk |-> -1, attempt |-> 0]

\* A call against the remote store.
NetCall(op) == [op |-> op, z0 |-> -1, z1 |-> -1, ok |-> TRUE, attempt |-> 0]
NetWrite(z0, z1, ok, n) == [op |-> "write", z0 |-> z0, z1 |-> z1, ok |-> ok, attempt |-> n]

\* ------------------------------------------------- BossDBInterface.__init__
\* What intern's array.__init__ can do for a channel: construct, or raise an
\* HTTPError (status 404 only for a channel that does not exist).
SuperInitOutcomes(exists) ==
    IF exists THEN {"ok", "HTTPError"} ELSE {"ok", "HTTP404", "HTTPError"}

\* BossDBInterface.__init__: a 404 is logged and the constructor returns False,
\* which Python rejects with a TypeError; any other HTTPError is re-raised.
BossDBInit(r) ==
    CASE r = "ok" -> "constructed"
      [] r = "HTTP404" -> "TypeError"
      [] OTHER -> "HTTPError"

\* ------------------------------------------------------------ bossdb_upload
\* A skip test that lost its "not".
MutSkipUpload(ow, ue) == ow /\ ue

\* line 36: if not overwrite and url_exist
SkipUpload(ow, ue) == ~ow /\ ue

\* line 52: create_new=not url_exist
CreateNew(ue) == ~ue

\* bool(raw_data) at lines 68 and 82: None is falsy; an ndarray of more than
\* one element has no truth value (ValueError); of one element, its value's.
RawTruth(raw, shape) ==
    CASE raw = "None" -> "False"
      [] shape[1] * shape[2] * shape[3] > 1 -> "ValueError"
      [] raw = "nonzero" -> "True"
      [] OTHER -> "False"

\* A z_limit that forgets the end of the volume.
MutZLimit(j, inc, zmax) == j + inc

\* line 78: z_limit = min(i + upload_increment, z_max)
ZLimit(j, inc, zmax) == Min(j + inc, zmax)

\* lines 77-78: every <<i, z_limit>> of the loop over range(0, z_max, upload_increment)
RECURSIVE ChunkPlan(_, _, _)
ChunkPlan(j, inc, zmax) ==
    IF j >= zmax THEN <<>>
    ELSE <<<<j, ZLimit(j, inc, zmax)>>>> \o ChunkPlan(j + inc, inc, zmax)

\* A loop that steps over every other chunk.
MutNextI(j, inc) == j + 2 * inc

\* line 77: the next i of range(0, z_max, upload_increment), taken only once
\* the while loop of lines 88-102 has left through break
NextI(j, inc) == j + inc

\* lines 80-84: stack.shape[0]. raw_data[i:z_limit] of an array of z_max planes,
\* or one decoded image per path of image_paths[i:z_limit].
StackLen(truth, j, zl, npaths) ==
    IF truth = "True" THEN zl - j ELSE Max(0, Min(zl, npaths) - j)

\* lines 80-84: stack.shape[1:]. The planes of raw_data, or the decoded images.
StackYX(truth, shape, img) == IF truth = "True" THEN <<shape[2], shape[3]>> ELSE img

\* lines 80-84: what stack holds: planes j .. j+len-1 of raw_data, or the
\* images of image_paths[j : j+len]
StackData(truth, j, len) == [from |-> IF truth = "True" THEN "raw_data" ELSE "image_paths",
                             first |-> j, count |-> len]

\* lines 90-94: boss_dataset[i : i + stack.shape[0], 0 : stack.shape[1],
\* 0 : stack.shape[2]] = stack
WriteBox(j, len, yx, data, n) ==
    [chunk |-> j, z |-> <<j, j + len>>, y |-> <<0, yx[1]>>, x |-> <<0, yx[2]>>,
     data |-> data, attempt |-> n]

\* A budget test that is off by one.
MutRetryExhausted(rc, rmax) == rc >= rmax

\* line 99: if retry_count > retry_max
RetryExhausted(rc, rmax) == rc > rmax

\* Re-raising the first exception of the chunk instead of the current one.
MutReraise(errs) == errs[1]

\* line 100: raise e, the exception caught by this pass of the handler
Reraise(errs) == errs[Len(errs)]

\* What a write through the handle can raise: the source does not look at
\* resolution before writing, so a rejection can only come from the handle.
WriteErrors(res) == IF res > 0 THEN {"Transient", "Unsupported"} ELSE {"Transient"}

Finish(o, e) ==
    /\ pc' = "done"
    /\ outcome' = o
    /\ raised' = e

InitUpload ==
    /\ overwrite \in BOOLEAN
    /\ resolution \in 0..1
    /\ raw_data \in {"None", "zeros", "nonzero"}
    /\ shape_zyx \in (1..MaxZ) \X (1..MaxYX) \X (1..MaxYX)
    /\ upload_increment \in 1..MaxInc
    /\ retry_max \in 0..MaxRetry
    /\ nfiles \in 0..MaxFiles
    /\ image_yx \in {<<n, n>> : n \in 1..MaxImg}
    /\ remote_exists \in BOOLEAN
    /\ pc = "probe"
    /\ url_exist = FALSE
    /\ create_new = FALSE
    /\ i = 0
    /\ stack_len = 0
    /\ retry_count = 0
    /\ chunk_errors = <<>>
    /\ visited = <<>>
    /\ outcome = "running"
    /\ raised = NoError
    /\ warnings = 0
    /\ committed = {}
    /\ net = <<>>
    /\ stack_yx = <<0, 0>>
    /\ boxes = <<>>

\* line 35: url_exist = BossDBInterface(url).exists
Probe ==
    /\ UNCHANGED <<keyVars, exVars>>
    /\ UNCHANGED <<image_yx, stack_yx, boxes>>
    /\ pc = "probe"
    /\ net' = Append(net, NetCall("exists"))
    /\ \E r \in SuperInitOutcomes(remote_exists) :
        IF BossDBInit(r) = "constructed"
        THEN /\ url_exist' = remote_exists
             /\ pc' = "decide"
             /\ UNCHANGED <<outcome, raised>>
        ELSE /\ Finish("error", Err(BossDBInit(r)))
             /\ UNCHANGED url_exist
    /\ UNCHANGED <<overwrite, resolution, raw_data, shape_zyx, upload_increment,
                   retry_max, nfiles, create_new, i, stack_len, retry_count,
                   chunk_errors, visited, warnings, remote_exists, committed>>

\* lines 36-41: warn and return
SkipExisting ==
    /\ UNCHANGED <<keyVars, exVars>>
    /\ UNCHANGED <<image_yx, stack_yx, boxes>>
    /\ pc = "decide"
    /\ SkipUpload(overwrite, url_exist)
    /\ warnings' = warnings + 1
    /\ Finish("skipped", NoError)
    /\ UNCHANGED <<overwrite, resolution, raw_data, shape_zyx, upload_increment,
                   retry_max, nfiles, url_exist, create_new, i, stack_len,
                   retry_count, chunk_errors, visited, remote_exists, committed, net>>

\* lines 43-54: boss_dataset = BossDBInterface(url, ..., create_new=not url_exist)
OpenDataset ==
    /\ UNCHANGED <<keyVars, exVars>>
    /\ UNCHANGED <<image_yx, stack_yx, boxes>>
    /\ pc = "decide"
    /\ ~SkipUpload(overwrite, url_exist)
    /\ create_new' = CreateNew(url_exist)
    /\ \E r \in {"ok", "HTTPError"} :
        IF r = "ok"
        THEN /\ net' = Append(net, NetCall(IF create_new' THEN "create" ELSE "open"))
             /\ remote_exists' = (remote_exists \/ create_new')
             /\ pc' = "source"
             /\ UNCHANGED <<outcome, raised>>
        ELSE /\ net' = Append(net, [NetCall(IF create_new' THEN "create" ELSE "open")
                                       EXCEPT !.ok = FALSE])
             /\ Finish("error", Err("HTTPError"))
             /\ UNCHANGED remote_exists
    /\ UNCHANGED <<overwrite, resolution, raw_data, shape_zyx, upload_increment,
                   retry_max, nfiles, url_exist, i, stack_len, retry_count,
                   chunk_errors, visited, warnings, committed>>

\* lines 68-76: if not raw_data: image_paths = sorted(glob); if not image_paths: raise
CheckSource ==
    /\ UNCHANGED <<keyVars, exVars>>
    /\ UNCHANGED <<image_yx, stack_yx, boxes>>
    /\ pc = "source"
    /\ LET truth == RawTruth(raw_data, shape_zyx) IN
        CASE truth = "ValueError" -> Finish("error", Err("ValueError"))
          [] truth = "False" /\ nfiles = 0 -> Finish("error", Err("DataJointError"))
          [] OTHER -> pc' = "loop" /\ UNCHANGED <<outcome, raised>>
    /\ i' = 0
    /\ UNCHANGED <<overwrite, resolution, raw_data, shape_zyx, upload_increment,
                   retry_max, nfiles, url_exist, create_new, stack_len, retry_count,
                   chunk_errors, visited, warnings, remote_exists, committed, net>>

\* lines 77-86: the next i of range(0, z_max, upload_increment), its z_limit and stack
LoopStep ==
    /\ UNCHANGED <<keyVars, exVars>>
    /\ UNCHANGED <<image_yx, boxes>>
    /\ pc = "loop"
    /\ IF i >= shape_zyx[1]
       THEN /\ Finish("success", NoError)
            /\ UNCHANGED <<stack_len, stack_yx, retry_count, chunk_errors, visited>>
       ELSE LET z_limit == ZLimit(i, upload_increment, shape_zyx[1])
                len == StackLen(RawTruth(raw_data, shape_zyx), i, z_limit, nfiles)
            IN /\ visited' = Append(visited, <<i, z_limit>>)
               /\ IF len = 0
                  THEN \* np.stack of an empty list
                       /\ Finish("error", Err("ValueError"))
                       /\ UNCHANGED <<stack_len, stack_yx, retry_count, chunk_errors>>
                  ELSE /\ stack_len' = len
                       /\ stack_yx' = StackYX(RawTruth(raw_data, shape_zyx), shape_zyx, image_yx)
                       /\ retry_count' = 0
                       /\ chunk_errors' = <<>>
                       /\ pc' = "write"
                       /\ UNCHANGED <<outcome, raised>>
    /\ UNCHANGED <<overwrite, resolution, raw_data, shape_zyx, upload_increment,
                   retry_max, nfiles, url_exist, create_new, i, warnings,
                   remote_exists, committed, net>>

\* lines 89-95: the write succeeds; break, and the for loop advances i
WriteOk ==
    /\ UNCHANGED <<keyVars, exVars>>
    /\ pc = "write"
    /\ net' = Append(net, NetWrite(i, i + stack_len, TRUE, retry_count + 1))
    /\ boxes' = Append(boxes, WriteBox(i, stack_len, stack_yx,
                                       StackData(RawTruth(raw_data, shape_zyx), i, stack_len),
                                       retry_count + 1))
    /\ UNCHANGED <<image_yx, stack_yx>>
    /\ committed' = committed \cup {<<i, i + stack_len>>}
    /\ i' = NextI(i, upload_increment)
    /\ pc' = "loop"
    /\ UNCHANGED <<overwrite, resolution, raw_data, shape_zyx, upload_increment,
                   retry_max, nfiles, url_exist, create_new, stack_len, retry_count,
                   chunk_errors, visited, outcome, raised, warnings, remote_exists>>

\* lines 96-102: the write raises; count it, and re-raise or retry
WriteFail ==
    /\ UNCHANGED <<keyVars, exVars>>
    /\ pc = "write"
    /\ \E t \in WriteErrors(resolution) :
        LET e == [type |-> t, chunk |-> i, attempt |-> retry_count + 1] IN
        /\ net' = Append(net, NetWrite(i, i + stack_len, FALSE, retry_count + 1))
        /\ boxes' = Append(boxes, WriteBox(i, stack_len, stack_yx,
                                           StackData(RawTruth(raw_data, shape_zyx), i, stack_len),
                                           retry_count + 1))
        /\ UNCHANGED <<image_yx, stack_yx>>
        /\ chunk_errors' = Append(chunk_errors, e)
        /\ retry_count' = retry_count + 1
        /\ IF RetryExhausted(retry_count', retry_max)
           THEN Finish("error", Reraise(chunk_errors'))
           ELSE UNCHANGED <<pc, outcome, raised>>
    /\ UNCHANGED <<overwrite, resolution, raw_data, shape_zyx, upload_increment,
                   retry_max, nfiles, url_exist, create_new, i, stack_len, visited,
                   warnings, remote_exists, committed>>

NextUpload ==
    \/ Probe
    \/ SkipExisting
    \/ OpenDataset
    \/ CheckSource
    \/ LoopStep
    \/ WriteOk
    \/ WriteFail

IdleKey ==
    /\ slice_key = <<>>
    /\ key_pc = "idle"
    /\ string_key = <<>>
    /\ key_result = <<>>
    /\ key_error = "None"

NoKey == [xs |-> <<0, 0>>, ys |-> <<0, 0>>, zs |-> <<0, 0>>]
NoData == [axis |-> "Z", origin |-> 0, len |-> 0]

IdleExport ==
    /\ axis_order = "ZYX"
    /\ provider_order = "ZYX"
    /\ extent = <<1, 1, 1>>
    /\ h_resolution = 0
    /\ tbl_resolution = {}
    /\ tbl_volume = {}
    /\ tbl_zoom = {}
    /\ zoom_calls = <<>>
    /\ ex_pc = "idle"
    /\ ex_key = NoKey
    /\ save_images = FALSE
    /\ ex_zoom_id = <<>>
    /\ ex_data = NoData
    /\ ex_z = 0
    /\ files = {}
    /\ save_log = <<>>
    /\ ex_outcome = "idle"
    /\ ex_error = "None"
    /\ slice_records = <<>>

\* One run of bossdb_upload.
Init == InitUpload /\ IdleKey /\ IdleExport
Next == NextUpload
Spec == Init /\ [][Next]_vars

\* ------------------------------------------------------------- range keys
\* Strings are sequences of one-character strings.
Digit(d) == <<"0", "1", "2", "3", "4", "5", "6", "7", "8", "9">>[d + 1]
DigitChars == {"0", "1", "2", "3", "4", "5", "6", "7", "8", "9"}
DigitVal(c) == CHOOSE d \in 0..9 : Digit(d) = c

\* f"{n}" of an int
RECURSIVE NatToStr(_)
NatToStr(n) == IF n < 10 THEN <<Digit(n)>> ELSE NatToStr(n \div 10) \o <<Digit(n % 10)>>
IntToStr(n) == IF n < 0 THEN <<"-">> \o NatToStr(-n) ELSE NatToStr(n)

\* int(s): an optional sign and at least one digit, or ValueError
IsIntStr(s) ==
    LET body == IF Len(s) > 0 /\ s[1] \in {"-", "+"} THEN Tail(s) ELSE s
    IN Len(body) > 0 /\ \A k \in DOMAIN body : body[k] \in DigitChars
RECURSIVE StrToNat(_)
StrToNat(s) ==
    IF Len(s) = 0 THEN 0
    ELSE 10 * StrToNat(SubSeq(s, 1, Len(s) - 1)) + DigitVal(s[Len(s)])
StrToInt(s) ==
    IF s[1] = "-" THEN 0 - StrToNat(Tail(s))
    ELSE IF s[1] = "+" THEN StrToNat(Tail(s))
    ELSE StrToNat(s)

\* s.strip(chars)
RECURSIVE LStrip(_, _)
LStrip(s, chars) == IF Len(s) > 0 /\ s[1] \in chars THEN LStrip(Tail(s), chars) ELSE s
RECURSIVE RStrip(_, _)
RStrip(s, chars) ==
    IF Len(s) > 0 /\ s[Len(s)] \in chars THEN RStrip(SubSeq(s, 1, Len(s) - 1), chars) ELSE s
Strip(s, chars) == RStrip(LStrip(s, chars), chars)

\* s.split(sep): the pieces between the separators, at least one
RECURSIVE SplitFrom(_, _, _, _)
SplitFrom(s, sep, k, cur) ==
    IF k > Len(s) THEN <<cur>>
    ELSE IF s[k] = sep THEN <<cur>> \o SplitFrom(s, sep, k + 1, <<>>)
    ELSE SplitFrom(s, sep, k + 1, Append(cur, s[k]))
Split(s, sep) == SplitFrom(s, sep, 1, <<>>)

\* sep.join(parts)
RECURSIVE Join(_, _)
Join(parts, sep) ==
    IF Len(parts) = 0 THEN <<>>
    ELSE IF Len(parts) = 1 THEN parts[1]
    ELSE parts[1] \o <<sep>> \o Join(Tail(parts), sep)

\* What a call gives: a value, or the exception it raised.
Ok(v) == [exc |-> "None", val |-> v]
Raise(e) == [exc |-> e, val |-> <<>>]

\* readers/bossdb.py line 130: outputs.apend(...). A list has no attribute
\* "apend": the call raises AttributeError and appends nothing.
Apend(outputs, s) == Raise("AttributeError")

\* readers/bossdb.py lines 128-132: the loop over the items, from item k on.
RECURSIVE KeyOutputs(_, _, _)
KeyOutputs(key, k, outputs) ==
    IF k > Len(key) THEN Ok(outputs)
    ELSE LET item == key[k]
             out == IF item[2] = item[1] + 1
                    THEN Apend(outputs, IntToStr(item[1]))
                    ELSE Ok(Append(outputs, IntToStr(item[1]) \o <<":">> \o IntToStr(item[2])))
         IN IF out.exc # "None" THEN out ELSE KeyOutputs(key, k + 1, out.val)

\* BossDBInterface._slice_key_to_string
SliceKeyToString(key) ==
    LET outputs == KeyOutputs(key, 1, <<>>)
    IN IF outputs.exc # "None" THEN outputs
       ELSE Ok(<<"[">> \o Join(outputs.val, ",") \o <<"]">>)

\* readers/bossdb.py lines 118-122: one item of the string key, as
\* <<start, stop>>, or ValueError from int() or from the unpacking
ItemToSlice(item) ==
    IF \E k \in DOMAIN item : item[k] = ":"
    THEN LET parts == Split(item, ":")
         IN IF Len(parts) = 2 /\ IsIntStr(parts[1]) /\ IsIntStr(parts[2])
            THEN Ok(<<StrToInt(parts[1]), StrToInt(parts[2])>>)
            ELSE Raise("ValueError")
    ELSE IF IsIntStr(item) THEN Ok(<<StrToInt(item), StrToInt(item) + 1>>)
    ELSE Raise("ValueError")

\* BossDBInterface._string_to_slice_key
StringToSliceKey(str) ==
    LET items == Split(Strip(str, {"[", "]"}), ",")
        slices == [k \in DOMAIN items |-> ItemToSlice(items[k])]
    IN IF \E k \in DOMAIN slices : slices[k].exc # "None" THEN Raise("ValueError")
       ELSE Ok([k \in DOMAIN slices |-> slices[k].val])

Coords == (0 - 1)..MaxCoord
Slices == Coords \X Coords
RECURSIVE KeysOfLen(_)
KeysOfLen(n) ==
    IF n = 0 THEN {<<>>}
    ELSE {Append(k, sl) : k \in KeysOfLen(n - 1), sl \in Slices}
SliceKeys == UNION {KeysOfLen(n) : n \in 0..MaxKeyLen}

IdleUpload ==
    /\ overwrite = FALSE
    /\ resolution = 0
    /\ raw_data = "None"
    /\ shape_zyx = <<1, 1, 1>>
    /\ upload_increment = 1
    /\ retry_max = 0
    /\ nfiles = 0
    /\ remote_exists = FALSE
    /\ pc = "idle"
    /\ url_exist = FALSE
    /\ create_new = FALSE
    /\ i = 0
    /\ stack_len = 0
    /\ retry_count = 0
    /\ chunk_errors = <<>>
    /\ visited = <<>>
    /\ outcome = "idle"
    /\ raised = NoError
    /\ warnings = 0
    /\ committed = {}
    /\ net = <<>>
    /\ image_yx = <<1, 1>>
    /\ stack_yx = <<0, 0>>
    /\ boxes = <<>>

InitKey ==
    /\ slice_key \in SliceKeys
    /\ key_pc = "start"
    /\ string_key = <<>>
    /\ key_result = <<>>
    /\ key_error = "None"

\* _slice_key_to_string(slice_key)
Serialize ==
    /\ key_pc = "start"
    /\ LET r == SliceKeyToString(slice_key) IN
        IF r.exc # "None"
        THEN /\ key_pc' = "failed"
             /\ key_error' = r.exc
             /\ UNCHANGED string_key
        ELSE /\ key_pc' = "serialized"
             /\ string_key' = r.val
             /\ UNCHANGED key_error
    /\ UNCHANGED <<slice_key, key_result, upVars, exVars>>

\* _string_to_slice_key(string_key)
Parse ==
    /\ key_pc = "serialized"
    /\ LET r == StringToSliceKey(string_key) IN
        IF r.exc # "None"
        THEN /\ key_pc' = "failed"
             /\ key_error' = r.exc
             /\ UNCHANGED key_result
        ELSE /\ key_pc' = "parsed"
             /\ key_result' = r.val
             /\ UNCHANGED key_error
    /\ UNCHANGED <<slice_key, string_key, upVars, exVars>>

\* A range key serialized and parsed back.
NextKey ==
    \/ Serialize
    \/ Parse
InitKeyRun == IdleUpload /\ InitKey /\ IdleExport
SpecKey == InitKeyRun /\ [][NextKey]_vars

\* ------------------------------------------------ BossDBInterface: a handle
\* intern's array.shape, in the handle's axis order (as lines 74-76 read it)
Shape(order, ext) == IF order = "ZYX" THEN ext ELSE <<ext[3], ext[2], ext[1]>>

\* readers/bossdb.py line 85: y_max, x_max = _shape[1:3] if axis_order[0] == "Z"
\* else _shape[-2::1]. Of a 3-tuple, [-2::1] is its last two items in order,
\* the same items as [1:3].
ZoomMax(order, shape) ==
    IF order = "ZYX" THEN <<shape[2], shape[3]>> ELSE <<shape[2], shape[3]>>

\* line 86: the window is the full image
IsFullImage(xs, ys, order, shape) ==
    LET y_max == ZoomMax(order, shape)[1]
        x_max == ZoomMax(order, shape)[2]
    IN xs[1] = 0 /\ ys[1] = 0 /\ xs[2] = x_max /\ ys[2] = y_max

FullImage == <<"F", "u", "l", "l", " ", "I", "m", "a", "g", "e">>

\* line 89: f"X{xs[0]}-{xs[1]}_Y{ys[0]}-{ys[1]}"
ZoomKey(xs, ys) ==
    <<"X">> \o IntToStr(xs[1]) \o <<"-">> \o IntToStr(xs[2]) \o <<"_", "Y">>
        \o IntToStr(ys[1]) \o <<"-">> \o IntToStr(ys[2])

\* lines 91-97: the row given to volume.Zoom.insert1
ZoomRow(xs, ys) ==
    [zoom_id |-> ZoomKey(xs, ys), first_start |-> xs[1], first_end |-> xs[2],
     second_start |-> ys[1], second_end |-> ys[2]]

\* volume.Zoom.insert1(row, skip_duplicates=True): insert if no row has the id
ZoomInsert(tbl, row) ==
    IF \E r \in tbl : r.zoom_id = row.zoom_id THEN tbl ELSE tbl \cup {row}

\* BossDBInterface._get_zoom_id: the value returned
GetZoomIdValue(xs, ys, order, shape) ==
    IF IsFullImage(xs, ys, order, shape) THEN FullImage ELSE ZoomKey(xs, ys)

\* BossDBInterface._get_zoom_id: volume.Zoom afterwards
GetZoomIdTable(tbl, xs, ys, order, shape) ==
    IF IsFullImage(xs, ys, order, shape) THEN tbl ELSE ZoomInsert(tbl, ZoomRow(xs, ys))

ZoomCall(xs, ys, ret) == [xs |-> xs, ys |-> ys, ret |-> ret]

\* Resolution.insert1(..., skip_duplicates=True); primary key resolution_id
ResolutionInsert(tbl, row) ==
    IF \E r \in tbl : r.resolution_id = row.resolution_id THEN tbl ELSE tbl \cup {row}

\* Volume.insert1(..., skip_duplicates=True); primary key volume_id, resolution_id
VolumeInsert(tbl, row) ==
    IF \E r \in tbl : r.volume_id = row.volume_id /\ r.resolution_id = row.resolution_id
    THEN tbl ELSE tbl \cup {row}

\* BossDBInterface._import_resolution: the row inserted
ResolutionRow(res) == [resolution_id |-> res]

\* BossDBInterface._import_volume: the row inserted
VolumeRow(res, order, shape) ==
    [volume_id |-> "collection/experiment", resolution_id |-> res,
     z_size |-> shape[IF order = "ZYX" THEN 1 ELSE 3],
     y_size |-> shape[2],
     x_size |-> shape[IF order = "ZYX" THEN 3 ELSE 1]]

\* The half-open windows [a, b) with 0 <= a < b <= n
Windows(n) == {w \in (0..n) \X (0..n) : w[1] < w[2]}

\* A slice key for the handle, in the handle's axis order
KeyTuple(order, xs, ys, zs) == IF order = "ZYX" THEN <<zs, ys, xs>> ELSE <<xs, ys, zs>>

\* The same key as a caller writes it: [a:b,c:d,e:f], a single index for [a, a+1)
KeyText(key) ==
    <<"[">> \o Join([k \in DOMAIN key |->
                        IF key[k][2] = key[k][1] + 1 THEN IntToStr(key[k][1])
                        ELSE IntToStr(key[k][1]) \o <<":">> \o IntToStr(key[k][2])], ",")
        \o <<"]">>

\* line 140: xs, ys, zs = self._normalize_key(key=slice_key)
NormalizeKey(order, key) ==
    IF order = "ZYX" THEN [xs |-> key[3], ys |-> key[2], zs |-> key[1]]
    ELSE [xs |-> key[1], ys |-> key[2], zs |-> key[3]]

\* BossDBInterface._fetch_slice_data: the cutout comes in the provider's axis
\* order and its first and last axes are swapped when the handle's differs.
\* What matters to the caller is data's first axis: which it is, where it
\* starts in the volume and how long it is.
FetchSliceData(order, prov, key) ==
    LET cutoutFirst == IF prov = "ZYX" THEN "Z" ELSE "X"
        first == IF order # prov
                 THEN (IF cutoutFirst = "Z" THEN "X" ELSE "Z")
                 ELSE cutoutFirst
        range == IF first = "Z" THEN key.zs ELSE key.xs
    IN [axis |-> first, origin |-> range[1], len |-> range[2] - range[1]]

\* line 148 and line 156: f"Res{self.resolution}_Zoom{zoom_id}_Z%d{extension}" % z
FileName(res, zoom_id, z) ==
    <<"R", "e", "s">> \o IntToStr(res) \o <<"_", "Z", "o", "o", "m">> \o zoom_id
        \o <<"_", "Z">> \o IntToStr(z) \o <<".", "p", "n", "g">>

\* Image.save(path): the file of that name now holds the plane
SaveFile(fs, name, plane) ==
    {f \in fs : f.name # name} \cup {[name |-> name, plane |-> plane]}

InitHandle ==
    /\ axis_order \in {"ZYX", "XYZ"}
    /\ provider_order \in {"ZYX", "XYZ"}
    /\ extent \in (1..MaxDim) \X (1..MaxDim) \X (1..MaxDim)
    /\ h_resolution \in 0..1
    /\ tbl_resolution = {}
    /\ tbl_volume = {}
    /\ tbl_zoom = {}
    /\ zoom_calls = <<>>
    /\ ex_key = NoKey
    /\ save_images = FALSE
    /\ ex_zoom_id = <<>>
    /\ ex_data = NoData
    /\ ex_z = 0
    /\ files = {}
    /\ save_log = <<>>
    /\ ex_outcome = "running"
    /\ ex_error = "None"
    /\ slice_records = <<>>

\* BossDBInterface._get_zoom_id(xs, ys), called on its own
GetZoomId ==
    /\ ex_pc = "bound"
    /\ Len(zoom_calls) < MaxZoomCalls
    /\ \E xs \in Windows(MaxDim), ys \in Windows(MaxDim) :
        LET shape == Shape(axis_order, extent) IN
        /\ zoom_calls' = Append(zoom_calls,
                                ZoomCall(xs, ys, GetZoomIdValue(xs, ys, axis_order, shape)))
        /\ tbl_zoom' = GetZoomIdTable(tbl_zoom, xs, ys, axis_order, shape)
    /\ UNCHANGED <<axis_order, provider_order, extent, h_resolution, tbl_resolution,
                   tbl_volume, ex_pc, ex_key, save_images, ex_zoom_id, ex_data, ex_z,
                   files, save_log, ex_outcome, ex_error, slice_records>>
    /\ UNCHANGED <<upVars, keyVars>>

\* Zoom ids requested of one handle, in any order.
NextZoom == GetZoomId
InitZoom == IdleUpload /\ IdleKey /\ InitHandle /\ ex_pc = "bound"
SpecZoom == InitZoom /\ [][NextZoom]_vars

ExFinish(o, e) ==
    /\ ex_pc' = "done"
    /\ ex_outcome' = o
    /\ ex_error' = e

\* BossDBInterface.download, up to the loop of _download_slices (lines 164-169
\* and 140-151)
Download ==
    /\ ex_pc = "start"
    /\ \E form \in {"tuple", "str"}, save \in BOOLEAN,
          xs \in Windows(extent[3]), ys \in Windows(extent[2]), zs \in Windows(extent[1]),
          env \in {"ok", "HTTPError", "FileNotFoundError"} :
        LET given == KeyTuple(axis_order, xs, ys, zs)
            parsed == IF form = "str" THEN StringToSliceKey(KeyText(given)) ELSE Ok(given)
            shape == Shape(axis_order, extent)
            key == NormalizeKey(axis_order, parsed.val)
        IN
        /\ save_images' = save
        /\ IF parsed.exc # "None"
           THEN /\ ExFinish("error", parsed.exc)
                /\ UNCHANGED <<tbl_resolution, tbl_volume, tbl_zoom, zoom_calls, ex_key,
                               ex_zoom_id, ex_data, ex_z>>
           ELSE /\ tbl_resolution' = ResolutionInsert(tbl_resolution, ResolutionRow(h_resolution))
                /\ tbl_volume' = VolumeInsert(tbl_volume, VolumeRow(h_resolution, axis_order, shape))
                /\ ex_key' = key
                /\ IF ~save
                   THEN /\ ExFinish("returned", "None")
                        /\ UNCHANGED <<tbl_zoom, zoom_calls, ex_zoom_id, ex_data, ex_z>>
                   ELSE IF env = "HTTPError"
                   THEN \* get_cutout fails
                        /\ ExFinish("error", env)
                        /\ UNCHANGED <<tbl_zoom, zoom_calls, ex_zoom_id, ex_data, ex_z>>
                   ELSE /\ ex_data' = FetchSliceData(axis_order, provider_order, key)
                        /\ ex_zoom_id' = GetZoomIdValue(key.xs, key.ys, axis_order, shape)
                        /\ tbl_zoom' = GetZoomIdTable(tbl_zoom, key.xs, key.ys, axis_order, shape)
                        /\ zoom_calls' = Append(zoom_calls, ZoomCall(key.xs, key.ys, ex_zoom_id'))
                        /\ ex_z' = key.zs[1]
                        /\ IF env = "FileNotFoundError"
                           THEN \* find_full_path fails
                                ExFinish("error", env)
                           ELSE /\ ex_pc' = "saving"
                                /\ UNCHANGED <<ex_outcome, ex_error>>
    /\ UNCHANGED <<axis_order, provider_order, extent, h_resolution, files, save_log,
                   slice_records>>
    /\ UNCHANGED <<upVars, keyVars>>

\* line 156: Image.fromarray(data[z - zs[0]]).save(file_path_full % z) succeeds
SaveOk ==
    /\ ex_pc = "saving"
    /\ ex_z < ex_key.zs[2]
    /\ ex_z - ex_key.zs[1] < ex_data.len
    /\ files' = SaveFile(files, FileName(h_resolution, ex_zoom_id, ex_z),
                         <<ex_data.axis, ex_data.origin + (ex_z - ex_key.zs[1])>>)
    /\ save_log' = Append(save_log, [z |-> ex_z, ok |-> TRUE])
    /\ ex_z' = ex_z + 1
    /\ UNCHANGED <<axis_order, provider_order, extent, h_resolution, tbl_resolution,
                   tbl_volume, tbl_zoom, zoom_calls, ex_pc, ex_key, save_images,
                   ex_zoom_id, ex_data, ex_outcome, ex_error, slice_records>>
    /\ UNCHANGED <<upVars, keyVars>>

\* line 156 raises: data has no plane z - zs[0] (IndexError), or the save fails
\* (OSError). Nothing catches it: it leaves _download_slices and download.
SaveFail ==
    /\ ex_pc = "saving"
    /\ ex_z < ex_key.zs[2]
    /\ IF ex_z - ex_key.zs[1] >= ex_data.len
       THEN /\ ExFinish("error", "IndexError")
            /\ UNCHANGED save_log
       ELSE /\ ExFinish("error", "OSError")
            /\ save_log' = Append(save_log, [z |-> ex_z, ok |-> FALSE])
    /\ UNCHANGED <<axis_order, provider_order, extent, h_resolution, tbl_resolution,
                   tbl_volume, tbl_zoom, zoom_calls, ex_key, save_images, ex_zoom_id,
                   ex_data, ex_z, files, slice_records>>
    /\ UNCHANGED <<upVars, keyVars>>

\* lines 153 and 169: range(zs[0], zs[1]) is exhausted; both functions return None
EndExport ==
    /\ ex_pc = "saving"
    /\ ex_z >= ex_key.zs[2]
    /\ ExFinish("returned", "None")
    /\ slice_records' = <<>>
    /\ UNCHANGED <<axis_order, provider_order, extent, h_resolution, tbl_resolution,
                   tbl_volume, tbl_zoom, zoom_calls, ex_key, save_images, ex_zoom_id,
                   ex_data, ex_z, files, save_log>>
    /\ UNCHANGED <<upVars, keyVars>>

\* One run of download on a handle.
NextExport ==
    \/ Download
    \/ SaveOk
    \/ SaveFail
    \/ EndExport
InitExport == IdleUpload /\ IdleKey /\ InitHandle /\ ex_pc = "start"
SpecExport == InitExport /\ [][NextExport]_vars

\* ------------------------------------------------------------------ claims
WriteIdx == {k \in DOMAIN net : net[k].op = "write"}
Attempts(c) == {k \in DOMAIN net : net[k].op = "write" /\ net[k].z0 = c}
Fails(c) == {k \in DOMAIN net : net[k].op = "write" /\ net[k].z0 = c /\ ~net[k].ok}
Oks(c) == {k \in DOMAIN net : net[k].op = "write" /\ net[k].z0 = c /\ net[k].ok}
Chunks == {net[k].z0 : k \in WriteIdx}
OkBoxes == {<<net[k].z0, net[k].z1>> : k \in {n \in WriteIdx : net[n].ok}}
CeilDiv(a, b) == (a + b - 1) \div b

\* C1 (as amended): a chunk whose write fails k times and then succeeds has
\* k <= retry_max and exactly k+1 attempts, the success being the last; a chunk
\* is given up after exactly retry_max+1 failed attempts, is then never written,
\* and the upload ends with that chunk's error.
C1_RetryBudget ==
    \A c \in Chunks :
        /\ Cardinality(Fails(c)) <= retry_max + 1
        /\ Cardinality(Oks(c)) <= 1
        /\ \A k \in Oks(c) :
            /\ \A f \in Attempts(c) : f <= k
            /\ Cardinality(Fails(c)) <= retry_max
            /\ Cardinality(Attempts(c)) = Cardinality(Fails(c)) + 1
        /\ Cardinality(Fails(c)) = retry_max + 1 =>
            /\ Oks(c) = {}
            /\ outcome = "error"
            /\ raised.chunk = c
        /\ (outcome = "error" /\ raised.chunk = c) =>
            Cardinality(Fails(c)) = retry_max + 1

\* C1 witness: a chunk failed exactly retry_max >= 1 times, was then written,
\* and the upload succeeded.
C1_Witness ==
    /\ outcome = "success"
    /\ retry_max >= 1
    /\ \E c \in Chunks :
        /\ Cardinality(Fails(c)) = retry_max
        /\ Cardinality(Oks(c)) = 1

\* C1 as stated: a chunk whose write failed k >= retry_max times (k >= 1) is
\* never written successfully.
C1_Original ==
    \A c \in Chunks :
        (Cardinality(Fails(c)) >= retry_max /\ Cardinality(Fails(c)) >= 1)
            => Oks(c) = {}

\* C2: the Z ranges the upload loop visits start at 0, are contiguous, strictly
\* increasing, never empty, of length upload_increment except possibly the last,
\* and, once the loop has run through, number ceil(z_max/upload_increment) and
\* end at z_max; the plan of z_max = 20, increment = 8 is [0,8),[8,16),[16,20).
C2_ChunkPlan ==
    /\ Len(visited) <= CeilDiv(shape_zyx[1], upload_increment)
    /\ \A k \in DOMAIN visited :
        /\ visited[k][1] < visited[k][2]
        /\ visited[k][2] <= shape_zyx[1]
        /\ visited[k][1] = (IF k = 1 THEN 0 ELSE visited[k - 1][2])
        /\ \/ visited[k][2] - visited[k][1] = upload_increment
           \/ /\ visited[k][2] = shape_zyx[1]
              /\ visited[k][2] - visited[k][1] < upload_increment
        /\ visited[k] = ChunkPlan(0, upload_increment, shape_zyx[1])[k]
    /\ outcome = "success" =>
        /\ Len(visited) = CeilDiv(shape_zyx[1], upload_increment)
        /\ visited[Len(visited)][2] = shape_zyx[1]
        /\ visited = ChunkPlan(0, upload_increment, shape_zyx[1])
    /\ ChunkPlan(0, 8, 20) = << <<0, 8>>, <<8, 16>>, <<16, 20>> >>

\* C2 witness: an upload ran through a plan whose last chunk is short.
C2_Witness ==
    /\ outcome = "success"
    /\ Len(visited) >= 2
    /\ visited[Len(visited)][2] - visited[Len(visited)][1] < upload_increment

\* C3: when a chunk is given up, the upload ends with the error of that chunk's
\* last attempt, which is the last call made; no later chunk was attempted; and
\* at every moment the store holds exactly the boxes written successfully, each
\* written once.
C3_AbortKeepsEarlier ==
    /\ committed = OkBoxes
    /\ \A c \in Chunks : Cardinality(Oks(c)) <= 1
    /\ (outcome = "error" /\ raised.chunk >= 0) =>
        /\ net[Len(net)] = NetWrite(raised.chunk, net[Len(net)].z1, FALSE, raised.attempt)
        /\ raised.attempt = Cardinality(Attempts(raised.chunk))
        /\ \A k \in WriteIdx : net[k].z0 <= raised.chunk
        /\ Oks(raised.chunk) = {}
        /\ \A c \in Chunks : c < raised.chunk => <<c, c + upload_increment>> \in committed

\* C3 witness: a later chunk was given up after a retry, with an earlier chunk
\* written.
C3_Witness ==
    /\ outcome = "error"
    /\ raised.chunk > 0
    /\ raised.attempt >= 2
    /\ committed # {}

\* C4: for a URL found to exist, without overwrite the upload ends as a skip
\* with one warning and no error, having made no call but the existence query;
\* with overwrite it is never skipped, opens the remote entity without creating
\* it (create_new is false) and, when it runs through, has written chunks.
C4_SkipOnExists ==
    /\ (url_exist /\ ~overwrite) =>
        /\ pc \in {"decide", "done"}
        /\ net = <<NetCall("exists")>>
        /\ committed = {}
        /\ pc = "done" => (outcome = "skipped" /\ raised = NoError /\ warnings = 1)
    /\ (url_exist /\ overwrite) =>
        /\ outcome # "skipped"
        /\ warnings = 0
        /\ create_new = FALSE
        /\ \A k \in DOMAIN net : net[k].op # "create"
        /\ pc \notin {"decide", "done"} => (Len(net) >= 2 /\ net[2] = NetCall("open"))
        /\ outcome = "success" => committed # {}
    /\ outcome = "skipped" => (url_exist /\ ~overwrite)

\* C4 witness: an upload to an existing URL was skipped.
C4_Witness ==
    /\ outcome = "skipped"
    /\ url_exist
    /\ ~overwrite
    /\ remote_exists

\* C5 as stated: an upload that fails for want of image files has made no call
\* against the remote store.
C5_FailFast ==
    (outcome = "error" /\ raised.type = "DataJointError") => net = <<>>

\* C6 as stated: at resolution > 0 no write reaches the store, no write is
\* attempted twice, and the upload never succeeds.
C6_RejectNonZeroResolution ==
    resolution > 0 =>
        /\ \A k \in WriteIdx : ~net[k].ok
        /\ \A c \in Chunks : Cardinality(Attempts(c)) <= 1
        /\ outcome # "success"

\* C7 as stated: every tuple of ranges serializes to a string, and the string
\* parses back to the same tuple.
C7_RoundTrip ==
    /\ key_pc # "start" => key_error = "None"
    /\ key_pc = "parsed" => key_result = slice_key

\* C8 as stated: _get_zoom_id returns "Full Image", and registers nothing,
\* exactly for the window [0, x_size] x [0, y_size] of the bound volume; for
\* any other window it returns the key of its bounds, for which exactly one
\* Zoom row is registered.
C8_ZoomIdentity ==
    \A n \in DOMAIN zoom_calls :
        LET c == zoom_calls[n]
            full == c.xs = <<0, extent[3]>> /\ c.ys = <<0, extent[2]>>
        IN /\ full <=> c.ret = FullImage
           /\ full => ~\E r \in tbl_zoom :
                          r.first_start = c.xs[1] /\ r.first_end = c.xs[2]
                          /\ r.second_start = c.ys[1] /\ r.second_end = c.ys[2]
           /\ ~full =>
                /\ c.ret = ZoomKey(c.xs, c.ys)
                /\ Cardinality({r \in tbl_zoom : r.zoom_id = c.ret}) = 1

\* C9 as stated: a finished export of Z range [z0, z1) has written z1 - z0
\* files, one per z, each holding plane z - z0 of the fetched cutout under a
\* name of its own, and has returned one SliceRecord per file, carrying the
\* zoom id.
C9_ExportComplete ==
    (ex_pc = "done" /\ ex_outcome = "returned" /\ save_images) =>
        /\ Cardinality(files) = ex_key.zs[2] - ex_key.zs[1]
        /\ \A z \in ex_key.zs[1]..(ex_key.zs[2] - 1) :
            \E f \in files :
                /\ f.name = FileName(h_resolution, ex_zoom_id, z)
                /\ f.plane = <<ex_data.axis, ex_data.origin + (z - ex_key.zs[1])>>
        /\ Len(slice_records) = Cardinality(files)
        /\ \A k \in DOMAIN slice_records : slice_records[k].zoom_id = ex_zoom_id

\* C10 as stated: after a failed write of one Z index the export still attempts
\* every Z index of the range and returns, the failure being part of what it
\* returns.
C10_ExportContinues ==
    (ex_pc = "done" /\ \E k \in DOMAIN save_log : ~save_log[k].ok) =>
        /\ ex_outcome = "returned"
        /\ \A z \in ex_key.zs[1]..(ex_key.zs[2] - 1) :
            \E k \in DOMAIN save_log : save_log[k].z = z

\* C11 as stated: every write attempt targets the chunk's planned Z range
\* [i, min(i + upload_increment, z_max)) and the full Y and X extent of
\* shape_zyx, and all attempts for one chunk have the same box and data.
C11_IdenticalRetryTarget ==
    /\ \A k \in DOMAIN boxes :
        /\ boxes[k].z = <<boxes[k].chunk,
                          ZLimit(boxes[k].chunk, upload_increment, shape_zyx[1])>>
        /\ boxes[k].y = <<0, shape_zyx[2]>>
        /\ boxes[k].x = <<0, shape_zyx[3]>>
    /\ \A k, n \in DOMAIN boxes :
        boxes[k].chunk = boxes[n].chunk =>
            [boxes[k] EXCEPT !.attempt = 0] = [boxes[n] EXCEPT !.attempt = 0]

\* C12: once the first write attempt is made only write attempts follow, in
\* nondecreasing Z order of the chunk plan; an attempt for a chunk comes only
\* after a successful write of every planned chunk before it, and no attempt
\* for a chunk follows its successful write, so attempts of two chunks never
\* interleave; the chunk being written has no successful write yet and is the
\* first of the plan that has none; hence the committed chunks are a prefix of
\* the plan, one box per chunk, and exactly the planned boxes whenever the
\* source holds a plane for every Z.
C12_SequentialChunks ==
    LET plan == ChunkPlan(0, upload_increment, shape_zyx[1])
        w == WriteIdx
        oks == {k \in w : net[k].ok}
        done == {b[1] : b \in committed}
        Starts(n) == {plan[q][1] : q \in 1..n}
        Before(c, k) == \E m \in oks : m < k /\ net[m].z0 = c
    IN /\ \A k \in w : k < Len(net) =>
            /\ net[k + 1].op = "write"
            /\ net[k].z0 <= net[k + 1].z0
            /\ net[k].ok => net[k].z0 < net[k + 1].z0
       /\ \A k \in w :
            \E p \in DOMAIN plan :
                /\ plan[p][1] = net[k].z0
                /\ \A q \in 1..(p - 1) : Before(plan[q][1], k)
       /\ pc = "write" =>
            /\ ~Before(i, Len(net) + 1)
            /\ \E p \in DOMAIN plan :
                /\ plan[p][1] = i
                /\ done = Starts(p - 1)
       /\ \E n \in 0..Len(plan) :
            /\ done = Starts(n)
            /\ Cardinality(committed) = n
            /\ (RawTruth(raw_data, shape_zyx) = "True" \/ nfiles >= shape_zyx[1]) =>
                    committed = {plan[q] : q \in 1..n}

\* C12 witness: three chunks were written one after the other, the second and
\* the third after a failed attempt each.
C12_Witness ==
    /\ outcome = "success"
    /\ Cardinality(committed) = 3
    /\ \A c \in Chunks : c > 0 => Fails(c) # {}

====
